---- MODULE Spec2Model ----
(***************************************************************************)
(* Model of the VAR sequence engine: the scale schedule (utils.py), the    *)
(* sampler's top-k / top-p filter (utils.py), VAR.__init__, VAR.forward    *)
(* and VAR.generate (var_model.py).                                        *)
(*                                                                         *)
(* Tensors are functions over 0..n-1 (Python's 0-based indexing); a batch  *)
(* is a function from 0..B-1 to rows.  Logits are integers; softmax is     *)
(* modelled exactly with weights 2^logit (0 for the filter value), so the  *)
(* comparisons of cumulative probability with top_p are comparisons of     *)
(* integers.  The output of the transformer stack is modelled twice: as    *)
(* the set of inputs a position's activation depends on (forward), and as  *)
(* an arbitrary logit row per step (generate).                             *)
(*                                                                         *)
(* The tokenizer (vqvae.py): VectorQuantizer.forward, and VQVAE.encode,    *)
(* decode and decode_from_indices.  The encoder and the decoder are        *)
(* modelled by the sizes their convolutions give, the encoder's output as  *)
(* an arbitrary grid of feature vectors, the decoder as a deterministic    *)
(* function of its input.  The quantizer's arithmetic is floating point:   *)
(* every operation rounds to nearest, ties to even, at a significand of    *)
(* MantissaBits bits.                                                      *)
(*                                                                         *)
(* VARTrainer.generate_samples (trainer.py): the grid it cuts from the     *)
(* generated tokens.  Two generate calls in flight at once: each has its   *)
(* own locals, and both draw from torch's default generator.               *)
(***************************************************************************)
EXTENDS Integers, Sequences, FiniteSets, TLC

\* ---------------------------------------------------------------- bounds
MaxScale == 2
MaxBatch == 2
\* batch_size * sequence length (or * vocabulary, for the filter) explored
MaxCells == 5
VocabSize == 2
\* width of the rows handed to top_k_top_p_filtering on its own
FilterWidth == 3
MaxLogit == 2
\* top_p ranges over 0/TopPDen .. TopPDen/TopPDen
TopPDen == 2
NLayers == 2
\* VectorQuantizer.num_embeddings
NumEmbeddings == 2
\* embedding_dim ranges over 1..MaxDim
MaxDim == 2
\* num_embeddings * embedding_dim explored
MaxCodeCells == 4
\* feature vectors * embedding_dim explored
MaxFeatCells == 2
\* codebook entries range over -MaxCode..MaxCode
MaxCode == 1
\* encoder features range over -MaxFeature..MaxFeature
MaxFeature == 4
\* bits of the significand of the floating-point format
MantissaBits == 2
\* largest max_scale of the model a trainer samples from
MaxSampleScale == 24
\* number of states of the random generator
RngStates == 8

\* class labels in [0, num_classes)
Classes == {0, 1}

\* temperature as <<numerator, denominator>>: 0.5 and 1.0, and the values a
\* caller must not pass, 0.0 and -1.0
Temperatures == {<<1, 2>>, <<1, 1>>, <<0, 1>>, <<-1, 1>>}

\* the class_labels argument when it is not given
None == [i \in {-1} |-> 0]

\* filter_value = -float('Inf'): below every finite logit
filter_value == -1000

\* ------------------------------------------------------------ tensors
Size(t) == Cardinality(DOMAIN t)

Empty == [i \in {} |-> 0]

\* a bug that overwrites the buffer in place, shifting the old tokens out
CatMutDropFirst(row, tok) ==
    IF Size(row) = 0 THEN [i \in 0..0 |-> tok]
    ELSE [i \in 0..(Size(row) - 1) |-> IF i = Size(row) - 1 THEN tok ELSE row[i + 1]]

\* torch.cat([row, [tok]], dim=1) on one row
Cat(row, tok) ==
    [i \in 0..Size(row) |-> IF i < Size(row) THEN row[i] ELSE tok]

\* row[a:b]
Slice(row, a, b) == [i \in 0..(b - a - 1) |-> row[a + i]]

Min(a, b) == IF a <= b THEN a ELSE b

\* ------------------------------------------------------ scale schedule
\* a bug: list(range(max_patches))
get_multi_scale_patchesMutFromZero(max_patches) ==
    [i \in 0..(max_patches - 1) |-> i]

\* list(range(1, max_patches + 1))
get_multi_scale_patches(max_patches) ==
    [i \in 0..(max_patches - 1) |-> i + 1]

\* sum(s * s for s in scales)
RECURSIVE SumSquares(_, _)
SumSquares(scale_list, n) ==
    IF n = 0 THEN 0
    ELSE SumSquares(scale_list, n - 1) + scale_list[n - 1] * scale_list[n - 1]

TotalSeqLen(S) == SumSquares(get_multi_scale_patches(S), S)

\* compute_scale_positions: the loop run over the first n scales;
\* [start |-> start_positions, end |-> end_positions, cumulative |-> cumulative]
RECURSIVE ScaleLoop(_, _)
ScaleLoop(scale_list, n) ==
    IF n = 0 THEN [start |-> Empty, end |-> Empty, cumulative |-> 0]
    ELSE LET prev == ScaleLoop(scale_list, n - 1)
             scale == scale_list[n - 1]
             num_tokens == scale * scale
         IN [start |-> Cat(prev.start, prev.cumulative),
             end |-> Cat(prev.end, prev.cumulative + num_tokens),
             cumulative |-> prev.cumulative + num_tokens]

\* a bug: start positions one too low, so that neighbouring scales overlap
compute_scale_positionsMutOverlap(S) ==
    LET r == ScaleLoop(get_multi_scale_patches(S), S)
    IN [start |-> [k \in DOMAIN r.start |-> IF k = 0 THEN 0 ELSE r.start[k] - 1],
        end |-> r.end]

\* compute_scale_positions(max_scale): (start_positions, end_positions)
compute_scale_positions(S) ==
    LET r == ScaleLoop(get_multi_scale_patches(S), S)
    IN [start |-> r.start, end |-> r.end]

\* ------------------------------------------------------------- sampler
\* logits / 0 has only inf, -inf and nan entries.  Neither filter leaves a
\* finite entry behind (no comparison with nan holds, and what is below inf
\* becomes -inf), and F.softmax of such a row is nan in every entry
DivByZero(t) == t[1] = 0

\* logits / temperature for a temperature other than 0 (exact for the
\* temperatures of the model)
Scale(row, t) ==
    [i \in DOMAIN row |->
        IF t[1] > 0 THEN (row[i] * t[2]) \div t[1]
        ELSE 0 - ((row[i] * t[2]) \div (0 - t[1]))]

\* a bug: torch.topk(..., largest=False), the k-th smallest value
KthLargestMutSmallest(row, k) ==
    CHOOSE v \in {row[i] : i \in DOMAIN row} :
        /\ Cardinality({i \in DOMAIN row : row[i] < v}) < k
        /\ Cardinality({i \in DOMAIN row : row[i] <= v}) >= k

\* torch.topk(row, k)[0][..., -1]: the k-th largest value, 1 <= k <= size
KthLargest(row, k) ==
    CHOOSE v \in {row[i] : i \in DOMAIN row} :
        /\ Cardinality({i \in DOMAIN row : row[i] > v}) < k
        /\ Cardinality({i \in DOMAIN row : row[i] >= v}) >= k

\* torch.topk(logits, top_k) raises when top_k exceeds the size n of the last
\* dimension
TopKRaises(n, k) == k > n

\* a bug: top_k = max(top_k, 1), top-k is never switched off
TopKMutAtLeastOne(row, k) ==
    LET kk == IF k > 0 THEN k ELSE 1
    IN [i \in DOMAIN row |->
          IF row[i] < KthLargest(row, kk) THEN filter_value ELSE row[i]]

\* a bug that compares with <= : the k-th largest value itself is removed
TopKMutRemoveThreshold(row, k) ==
    IF k > 0
    THEN [i \in DOMAIN row |->
            IF row[i] <= KthLargest(row, k) THEN filter_value ELSE row[i]]
    ELSE row

\* if top_k > 0: logits[logits < topk(logits, top_k)[0][..., -1, None]] = filter_value
TopK(row, k) ==
    IF k > 0
    THEN [i \in DOMAIN row |->
            IF row[i] < KthLargest(row, k) THEN filter_value ELSE row[i]]
    ELSE row

\* the index orders torch.sort(row, descending=True) may return: the order of
\* equal entries is not fixed
SortedIndices(row) ==
    {p \in [DOMAIN row -> DOMAIN row] :
        /\ \A a, b \in DOMAIN row : a # b => p[a] # p[b]
        /\ \A n \in DOMAIN row : n + 1 \in DOMAIN row => row[p[n]] >= row[p[n + 1]]}

\* the most negative finite logit after temperature scaling is -WeightShift
WeightShift == 2 * MaxLogit

\* numerator of softmax with base 2, scaled by 2 ^ WeightShift; exp(-inf) = 0
Weight(l) == IF l = filter_value THEN 0 ELSE 2 ^ (l + WeightShift)

\* torch.cumsum of the softmax numerators of the sorted row
CumWeight(sorted_logits, n) ==
    LET cum[m \in -1..n] ==
            IF m < 0 THEN 0 ELSE cum[m - 1] + Weight(sorted_logits[m])
    IN cum[n]

\* a bug: lines 120-121 left out, the mark is not shifted to the right
SortedToRemoveMutNoShift(sorted_logits, p) ==
    LET total == CumWeight(sorted_logits, Size(sorted_logits) - 1)
        above == [n \in DOMAIN sorted_logits |->
                    CumWeight(sorted_logits, n) * TopPDen > p * total]
    IN [n \in DOMAIN sorted_logits |-> IF n = 0 THEN FALSE ELSE above[n]]

\* a bug: line 122 left out, entry 0 keeps cumulative_probs[0] > top_p
SortedToRemoveMutNoClear(sorted_logits, p) ==
    LET total == CumWeight(sorted_logits, Size(sorted_logits) - 1)
        above == [n \in DOMAIN sorted_logits |->
                    CumWeight(sorted_logits, n) * TopPDen > p * total]
    IN [n \in DOMAIN sorted_logits |-> IF n = 0 THEN above[0] ELSE above[n - 1]]

\* sorted_indices_to_remove after lines 119-122: cumulative_probs > top_p,
\* shifted right by one, entry 0 cleared
SortedToRemove(sorted_logits, p) ==
    LET total == CumWeight(sorted_logits, Size(sorted_logits) - 1)
        above == [n \in DOMAIN sorted_logits |->
                    CumWeight(sorted_logits, n) * TopPDen > p * total]
    IN [n \in DOMAIN sorted_logits |-> IF n = 0 THEN FALSE ELSE above[n - 1]]

\* if top_p < 1.0: sort, mark, scatter back to the original indexing, overwrite
TopP(row, p, sorted_indices) ==
    IF p < TopPDen
    THEN LET sorted_logits == [n \in DOMAIN row |-> row[sorted_indices[n]]]
             sorted_indices_to_remove == SortedToRemove(sorted_logits, p)
             indices_to_remove ==
                 [i \in DOMAIN row |->
                     sorted_indices_to_remove[
                         CHOOSE n \in DOMAIN row : sorted_indices[n] = i]]
         IN [i \in DOMAIN row |-> IF indices_to_remove[i] THEN filter_value ELSE row[i]]
    ELSE row

\* top_k_top_p_filtering on one row, for one outcome of torch.sort
top_k_top_p_filtering(row, k, p, sorted_indices) ==
    TopP(TopK(row, k), p, sorted_indices)

\* every result the filter can give for a row
FilterResults(row, k, p) ==
    {top_k_top_p_filtering(row, k, p, si) :
        si \in SortedIndices(TopK(row, k))}

\* indices with non-zero probability under F.softmax(filtered_logits)
Support(filtered) == {i \in DOMAIN filtered : filtered[i] # filter_value}

\* the logit rows of width n
LogitRows(n) == [0..(n - 1) -> 0..MaxLogit]

\* ------------------------------------------------------- VAR.forward
\* a bug: torch.ones without torch.tril
create_causal_maskMutNoTril(seq_len) ==
    [i \in 0..(seq_len - 1) |-> [j \in 0..(seq_len - 1) |-> TRUE]]

\* torch.tril(torch.ones(seq_len, seq_len, dtype=torch.bool))
create_causal_mask(seq_len) ==
    [i \in 0..(seq_len - 1) |-> [j \in 0..(seq_len - 1) |-> j <= i]]

\* attn_mask = ~causal_mask
AttnMask(seq_len) ==
    LET causal_mask == create_causal_mask(seq_len)
    IN [i \in 0..(seq_len - 1) |-> [j \in 0..(seq_len - 1) |-> ~causal_mask[i][j]]]

\* nn.MultiheadAttention with a boolean attn_mask: a True entry (i, j) means
\* that query position i may not attend to key position j
Attended(attn_mask, i) == {j \in DOMAIN attn_mask[i] : ~attn_mask[i][j]}

\* class_embedding(class_labels) for one batch element, or the zero vector
Condition(labels, b) == IF labels = None THEN "zeros" ELSE <<"class", labels[b]>>

\* length of x + pos_embedding[:, :seq_len, :] under broadcasting; -1 = raises
BroadcastLen(seq_len, total) ==
    LET pos_len == Min(seq_len, total)
    IN IF pos_len = seq_len THEN seq_len
       ELSE IF pos_len = 1 THEN seq_len
       ELSE IF seq_len = 1 THEN pos_len
       ELSE -1

\* token_embedding(tokens) + pos_embedding[:, :seq_len, :] for one row: the
\* inputs each position's activation depends on
Embed(row, total) ==
    LET seq_len == Size(row)
        pos_len == Min(seq_len, total)
    IN [i \in 0..(seq_len - 1) |->
          {<<"tok", i, row[i]>>, <<"pos", i, IF pos_len = seq_len THEN i ELSE 0>>}]

\* TransformerBlock.forward: AdaLN with the condition, masked self-attention
\* over the whole row, residual add, position-wise feed-forward
TransformerBlock(x, condition, attn_mask) ==
    [i \in DOMAIN x |->
        x[i] \cup {<<"cond", condition>>}
             \cup UNION {x[j] : j \in Attended(attn_mask, i)}]

\* for block in self.transformer_blocks: x = block(x, condition, attn_mask)
RECURSIVE Blocks(_, _, _, _)
Blocks(x, condition, attn_mask, n) ==
    IF n = 0 THEN x
    ELSE TransformerBlock(Blocks(x, condition, attn_mask, n - 1), condition, attn_mask)

\* tensor.view(-1) of a [B, n] batch
Flatten(batch, B, n) == [k \in 0..(B * n - 1) |-> batch[k \div n][k % n]]

\* logits[:, :-1] of rows of length n, as the (b, i) each entry comes from
ShiftLogits(B, n) == [b \in 0..(B - 1) |-> Slice([i \in 0..(n - 1) |-> <<b, i>>], 0, n - 1)]

\* a bug: tokens[:, :-1], the targets are not shifted
ShiftTokensMutNoShift(B, n) ==
    [b \in 0..(B - 1) |-> Slice([i \in 0..(n - 1) |-> <<b, i>>], 0, n - 1)]

\* tokens[:, 1:] of rows of length n, as the (b, i) each entry comes from
ShiftTokens(B, n) == [b \in 0..(B - 1) |-> Slice([i \in 0..(n - 1) |-> <<b, i>>], 1, n)]

\* the (logit, target) pairs F.cross_entropy averages over
LossPairs(B, n) ==
    LET m == IF n = 0 THEN 0 ELSE n - 1
        fl == Flatten(ShiftLogits(B, n), B, m)
        ft == Flatten(ShiftTokens(B, n), B, m)
    IN [k \in DOMAIN fl |-> [logit |-> fl[k], target |-> ft[k]]]

NoForward ==
    [status |-> "none", attn_mask |-> Empty, logits |-> Empty,
     pairs |-> Empty, loss |-> "none"]

\* VAR.forward(tokens, class_labels, return_loss)
Forward(tokens, labels, return_loss, total) ==
    LET B == Size(tokens)
        seq_len == Size(tokens[0])
        attn_mask == AttnMask(seq_len)
        pairs == LossPairs(B, seq_len)
    IN IF BroadcastLen(seq_len, total) # seq_len
       THEN [NoForward EXCEPT !.status = "error"]
       ELSE [status |-> "ok",
             attn_mask |-> attn_mask,
             logits |-> [b \in 0..(B - 1) |->
                           Blocks(Embed(tokens[b], total), Condition(labels, b),
                                  attn_mask, NLayers)],
             pairs |-> IF return_loss THEN pairs ELSE Empty,
             loss |-> IF ~return_loss THEN "none"
                      ELSE IF Size(pairs) = 0 THEN "nan" ELSE "finite"]

\* ---------------------------------------- logits as values of the network
\* The network is one fixed function of its parameters.  A value it computes is
\* written as the term that computes it: two values are the same when the same
\* modules were applied to the same arguments.

\* nn.Dropout on the embedded row (a position is the set of what is added up
\* in it): the identity in eval mode, a random mask in training mode
Dropout(x, training) ==
    IF training THEN [i \in DOMAIN x |-> x[i] \cup {<<"mask", i>>}] ELSE x

\* for block in self.transformer_blocks: x = block(x, condition, attn_mask), in
\* eval mode, as a value: position i of what the n blocks return is one
\* function of the embedded row, the condition and the mask
BlockStack(x, condition, attn_mask, n) ==
    [i \in DOMAIN x |-> <<"blocks", n, i, condition, attn_mask, x>>]

\* forward, lines 216-241, for one row: the logits of every position
ForwardLogits(row, condition, total, training) ==
    LET seq_len == Size(row)
        x == Dropout(Embed(row, total), training)
        attn_mask == AttnMask(seq_len)
        out == BlockStack(x, condition, attn_mask, NLayers)
    IN [i \in 0..(seq_len - 1) |-> <<"to_logits", out[i]>>]

\* a bug: only the newest token is embedded and run through the blocks
GenerateLogitsMutLastOnly(row, condition, total) ==
    LET seq_len == Size(row)
    IN IF seq_len = 0
       THEN <<"to_logits", condition>>
       ELSE LET x == Embed(Slice(row, seq_len - 1, seq_len), total)
                attn_mask == AttnMask(1)
                out == BlockStack(x, condition, attn_mask, NLayers)
            IN <<"to_logits", out[0]>>

\* generate, lines 301-323, for one row: the logits of one pass of the inner
\* loop over the prefix generated so far
GenerateLogits(row, condition, total) ==
    LET seq_len == Size(row)
    IN IF seq_len = 0
       THEN <<"to_logits", condition>>
       ELSE LET x == Embed(row, total)
                attn_mask == AttnMask(seq_len)
                out == BlockStack(x, condition, attn_mask, NLayers)
            IN <<"to_logits", out[seq_len - 1]>>

\* ------------------------------------------------- floating point
\* Tensors hold floating-point numbers.  The model keeps the rounding of the
\* format (to nearest, ties to even) at a significand of MantissaBits bits;
\* its numbers are the integers m * 2^e with m < 2^MantissaBits.
Exponents == 0..12

\* the nearest representable number to a >= 0
FlAbs(a) ==
    IF a < 2 ^ MantissaBits THEN a
    ELSE LET e == CHOOSE n \in Exponents :
                      a < 2 ^ (MantissaBits + n) /\ a >= 2 ^ (MantissaBits + n - 1)
             step == 2 ^ e
             lo == (a \div step) * step
             hi == lo + step
         IN IF a - lo < hi - a THEN lo
            ELSE IF a - lo > hi - a THEN hi
            ELSE IF (lo \div step) % 2 = 0 THEN lo ELSE hi

\* FlAbs tabulated over the magnitudes the model can produce
FlTable == [a \in 0..512 |-> FlAbs(a)]

\* the result of an arithmetic operation whose exact value is v
Fl(v) == IF v < 0 THEN 0 - FlTable[0 - v] ELSE FlTable[v]

\* torch.sum over the last dimension: the entries added up one after another
FlSum(vec) ==
    LET acc[n \in -1..(Size(vec) - 1)] ==
            IF n < 0 THEN 0 ELSE Fl(acc[n - 1] + vec[n])
    IN acc[Size(vec) - 1]

\* ------------------------------------------------------ VectorQuantizer
\* commitment_cost = 0.25, as <<numerator, denominator>>
commitment_cost == <<1, 4>>

\* the numbers a tensor of the model can hold
Representable(lim) == {v \in (0 - lim)..lim : Fl(v) = v}

\* the codebooks nn.Embedding(num_embeddings, dim) can hold
Codebooks(dim) == [0..(NumEmbeddings - 1) -> [0..(dim - 1) -> Representable(MaxCode)]]

\* the outputs of the encoder for n feature vectors
Features(n, dim) == [0..(n - 1) -> [0..(dim - 1) -> Representable(MaxFeature)]]

\* torch.sum(v ** 2, dim=1) for one row
SqNorm(vec) == FlSum([d \in DOMAIN vec |-> Fl(vec[d] * vec[d])])

\* torch.matmul(flat_x, weight.t()) for one row and one codebook entry
Dot(vec, code) == FlSum([d \in DOMAIN vec |-> Fl(vec[d] * code[d])])

\* a bug: the factor 2 of the cross term left out
DistanceMutNoFactor(vec, code) ==
    Fl(Fl(SqNorm(vec) + SqNorm(code)) - Dot(vec, code))

\* distances[i, k] = sum(x_i ** 2) + sum(e_k ** 2) - 2 * x_i . e_k
Distance(vec, code) ==
    Fl(Fl(SqNorm(vec) + SqNorm(code)) - 2 * Dot(vec, code))

\* a bug: the last of the minimal entries
ArgMinMutLast(dist) ==
    CHOOSE k \in DOMAIN dist :
        /\ \A j \in DOMAIN dist : dist[k] <= dist[j]
        /\ \A j \in DOMAIN dist : j > k => dist[j] > dist[k]

\* torch.argmin(distances, dim=1) for one row: the first of the minimal entries
ArgMin(dist) ==
    CHOOSE k \in DOMAIN dist :
        /\ \A j \in DOMAIN dist : dist[k] <= dist[j]
        /\ \A j \in DOMAIN dist : j < k => dist[j] > dist[k]

\* a bug: quantized = x + (x - quantized).detach(), the difference reversed
StraightThroughMutReversed(vec, code) ==
    [d \in DOMAIN vec |-> Fl(vec[d] + Fl(vec[d] - code[d]))]

\* quantized = x + (quantized - x).detach() for one feature vector
StraightThrough(vec, code) ==
    [d \in DOMAIN vec |-> Fl(vec[d] + Fl(code[d] - vec[d]))]

\* F.mse_loss(first, second) of two tensors, each [tensor, detached]: where
\* its gradient flows
MseLoss(first, second) ==
    [grad_to |-> {a.tensor : a \in {b \in {first, second} : ~b.detached}}]

\* a bug: the two weights exchanged
VqLossMutSwapped ==
    LET e_latent_loss == MseLoss([tensor |-> "quantized", detached |-> TRUE],
                                 [tensor |-> "input", detached |-> FALSE])
        q_latent_loss == MseLoss([tensor |-> "quantized", detached |-> FALSE],
                                 [tensor |-> "input", detached |-> TRUE])
    IN {[loss |-> q_latent_loss, weight |-> commitment_cost],
        [loss |-> e_latent_loss, weight |-> <<1, 1>>]}

\* vq_loss = q_latent_loss + commitment_cost * e_latent_loss, as its weighted terms
VqLoss ==
    LET e_latent_loss == MseLoss([tensor |-> "quantized", detached |-> TRUE],
                                 [tensor |-> "input", detached |-> FALSE])
        q_latent_loss == MseLoss([tensor |-> "quantized", detached |-> FALSE],
                                 [tensor |-> "input", detached |-> TRUE])
    IN {[loss |-> q_latent_loss, weight |-> <<1, 1>>],
        [loss |-> e_latent_loss, weight |-> commitment_cost]}

NoQuantizer ==
    [quantized |-> Empty, vq_loss |-> {}, encodings |-> Empty, shape |-> <<0, 0>>]

\* VectorQuantizer.forward on the features of an h x w grid
QuantizerForward(codebook, flat_x, h, w) ==
    LET distances == [i \in DOMAIN flat_x |->
                        [k \in DOMAIN codebook |-> Distance(flat_x[i], codebook[k])]]
        encoding_indices == [i \in DOMAIN flat_x |-> ArgMin(distances[i])]
    IN [quantized |-> [i \in DOMAIN flat_x |->
                          StraightThrough(flat_x[i], codebook[encoding_indices[i]])],
        vq_loss |-> VqLoss,
        encodings |-> encoding_indices,
        shape |-> <<h, w>>]

\* ---------------------------------------------------------------- VQVAE
\* the images handed to encode are ImageSizes x ImageSizes
ImageSizes == {1, 3, 4, 6, 8}

\* output size of nn.Conv2d along one dimension; -1 = raises (the kernel is
\* larger than the padded input)
ConvOut(size, kernel, stride, padding) ==
    IF size < 0 \/ size + 2 * padding < kernel THEN -1
    ELSE (size + 2 * padding - kernel) \div stride + 1

\* output size of nn.ConvTranspose2d along one dimension
ConvTransposeOut(size, kernel, stride, padding) ==
    (size - 1) * stride - 2 * padding + kernel

\* a bug: the second convolution has stride 1
EncoderSizeMutOneStride(size) ==
    ConvOut(ConvOut(ConvOut(size, 4, 2, 1), 4, 1, 1), 3, 1, 1)

\* self.encoder along one dimension: two 4/2/1 convolutions, then residual
\* blocks and a convolution that keep the size (3/1/1)
EncoderSize(size) ==
    ConvOut(ConvOut(ConvOut(size, 4, 2, 1), 4, 2, 1), 3, 1, 1)

\* self.decoder along one dimension: 3/1/1 convolutions, then two 4/2/1
\* transposed convolutions
DecoderSize(size) ==
    ConvTransposeOut(ConvTransposeOut(ConvOut(size, 3, 1, 1), 4, 2, 1), 4, 2, 1)

NoImage == [height |-> 0, width |-> 0, input |-> Empty]

\* self.decoder(quantized): a deterministic function of its input
Decoder(quantized, shape) ==
    [height |-> DecoderSize(shape[1]), width |-> DecoderSize(shape[2]),
     input |-> quantized]

\* ---------------------------------------------------------------- state
\* ------------------------------------------ VARTrainer.generate_samples
\* int(n ** 0.5)
ISqrt(n) == CHOOSE g \in 0..n : g * g <= n /\ (g + 1) * (g + 1) > n

\* rows of length g * g, from position first on, reshaped to [g, g]: the
\* position in the row that each cell of the grid holds
Reshape(first, g) ==
    [r \in 0..(g - 1) |-> [c \in 0..(g - 1) |-> first + r * g + c]]

\* lines 187-194: the grid cut from tokens of shape [N, seq_len] for a model
\* of max_scale S
TokenGrid(S, seq_len) ==
    LET grid_size == ISqrt(seq_len)
    IN IF grid_size * grid_size # seq_len
       THEN [grid_size |-> S, tokens_2d |-> Reshape(seq_len - S * S, S)]
       ELSE [grid_size |-> grid_size, tokens_2d |-> Reshape(0, grid_size)]

NoSamples ==
    [status |-> "none", max_scale |-> 0, num_samples |-> 0, class_labels |-> None,
     seq_len |-> 0, grid_size |-> 0, tokens_2d |-> Empty, images |-> <<0, 0, 0>>]

\* ------------------------------------------- two generate calls at once
CallIds == {1, 2}

\* the locals of one call of generate(batch_size=1, class_labels, top_k=k,
\* temperature=1.0, top_p=1.0): where it stands and its prefix buffer
NoCall ==
    [pc |-> "idle", class_labels |-> None, top_k |-> 0, generated |-> Empty]

\* torch's default generator: finitely many states, each draw reads the state
\* and moves it on by a fixed rule (here a linear congruential step)
NextRng(g) == (5 * g + 3) % RngStates

\* the sum of the tokens of a row
RowSum(row) ==
    LET acc[n \in -1..(Size(row) - 1)] == IF n < 0 THEN 0 ELSE acc[n - 1] + row[n]
    IN acc[Size(row) - 1]

\* lines 301-323 for one fixed setting of the parameters: the logits are one
\* function of the conditioning and of the prefix, the same in every call
ParamLogits(row, condition) ==
    LET cond == IF condition = "zeros" THEN 0 ELSE condition[2] + 1
    IN [v \in 0..(VocabSize - 1) |->
          (v * (Size(row) + 1) + RowSum(row) + cond) % (MaxLogit + 1)]

\* lines 325-332 for one row: F.softmax(filtered_logits) as numerators
\* (with top_p = 1.0 the result of the filter is the same for every outcome
\* of the sort)
PassProbs(row, call) ==
    LET lg == ParamLogits(row, Condition(call.class_labels, 0))
        filtered == CHOOSE f \in FilterResults(Scale(lg, <<1, 1>>), call.top_k, TopPDen) : TRUE
    IN [i \in DOMAIN filtered |-> Weight(filtered[i])]

\* torch.multinomial(probs, num_samples=1) for one row, given the state u of
\* the generator: the entry whose share of the cumulative distribution holds
\* the point u / RngStates
Multinomial(pr, u) ==
    LET cum[n \in -1..(Size(pr) - 1)] == IF n < 0 THEN 0 ELSE cum[n - 1] + pr[n]
        all == cum[Size(pr) - 1]
    IN CHOOSE i \in DOMAIN pr :
          /\ cum[i] * RngStates > u * all
          /\ cum[i - 1] * RngStates <= u * all

VARIABLES
    max_scale,              \* VAR.max_scale
    scales,                 \* VAR.scales
    total_seq_len,          \* VAR.total_seq_len
    pc,                     \* where the current call stands
    batch_size,             \* arguments of the current call
    class_labels,
    temperature,
    top_k,
    top_p,                  \* in units of 1/TopPDen
    generated,              \* generate: the prefix buffer, [batch_size, seq_len]
    scale_idx,              \* generate: index of the outer loop
    num_tokens_this_scale,
    tok_i,                  \* generate: index of the inner loop
    steps,                  \* generate: sampling steps taken so far
    step_logits,            \* generate: the logits of the latest pass, per row
    logits,                 \* top_k_top_p_filtering: argument
    filtered_logits,        \* top_k_top_p_filtering: result
    fw_tokens,              \* forward: argument
    fw,                     \* forward: what the call computed
    probs,                  \* sampling: F.softmax(filtered_logits), as numerators
    next_token,             \* sampling: what torch.multinomial drew
    embedding_dim,          \* VectorQuantizer.embedding_dim
    embeddings,             \* VectorQuantizer.embeddings.weight
    image_size,             \* encode: <<H, W>> of the input
    z,                      \* encode: the output of the encoder, flattened
    vq,                     \* encode: what the quantizer returned
    x_recon,                \* decode(quantized)
    x_recon_idx,            \* decode_from_indices(encodings)
    samples,                \* VARTrainer.generate_samples: what the call computed
    calls,                  \* two generate calls in flight, each with its own locals
    rng                     \* torch's default generator, shared by all calls

vars ==
    <<max_scale, scales, total_seq_len, pc, batch_size, class_labels, temperature,
      top_k, top_p, generated, scale_idx, num_tokens_this_scale, tok_i, steps,
      step_logits,
      logits, filtered_logits, fw_tokens, fw, probs, next_token,
      embedding_dim, embeddings, image_size, z, vq, x_recon, x_recon_idx,
      samples, calls, rng>>

model_vars == <<max_scale, scales, total_seq_len>>
arg_vars == <<batch_size, class_labels, temperature, top_k, top_p>>
loop_vars == <<generated, scale_idx, num_tokens_this_scale, tok_i, steps, step_logits>>
filter_vars == <<logits, filtered_logits>>
forward_vars == <<fw_tokens, fw>>
sample_vars == <<probs, next_token>>
codebook_vars == <<embedding_dim, embeddings>>
encode_vars == <<image_size, z, vq>>
decode_vars == <<x_recon, x_recon_idx>>
vq_vars == <<codebook_vars, encode_vars, decode_vars>>
trainer_vars == <<samples>>
conc_vars == <<calls, rng>>

\* class_labels: None or one label per batch element
ClassLabelArgs(B) == {None} \cup [0..(B - 1) -> Classes]

\* VAR.__init__: the state after construction
Init ==
    /\ max_scale \in 0..MaxScale
    /\ scales = get_multi_scale_patches(max_scale)
    /\ total_seq_len = SumSquares(scales, Size(scales))
    /\ pc = "idle"
    /\ batch_size = 0
    /\ class_labels = None
    /\ temperature = <<1, 1>>
    /\ top_k = 0
    /\ top_p = TopPDen
    /\ generated = Empty
    /\ scale_idx = 0
    /\ num_tokens_this_scale = 0
    /\ tok_i = 0
    /\ steps = 0
    /\ step_logits = Empty
    /\ logits = Empty
    /\ filtered_logits = Empty
    /\ fw_tokens = Empty
    /\ fw = NoForward
    /\ probs = Empty
    /\ next_token = Empty
    /\ embedding_dim = 0
    /\ embeddings = Empty
    /\ image_size = <<0, 0>>
    /\ z = Empty
    /\ vq = NoQuantizer
    /\ x_recon = NoImage
    /\ x_recon_idx = NoImage
    /\ samples = NoSamples
    /\ calls = [c \in CallIds |-> NoCall]
    /\ rng = [seed |-> 0, state |-> 0]

\* ------------------------------------------------------- VAR.generate
\* the call and lines 283-293: the empty sequence, the conditioning
GenerateCall ==
    /\ pc = "idle"
    /\ \E N \in 1..MaxBatch :
         /\ N * total_seq_len <= MaxCells
         /\ batch_size' = N
         /\ class_labels' \in ClassLabelArgs(N)
         /\ generated' = [b \in 0..(N - 1) |-> Empty]
    /\ temperature' \in Temperatures
    /\ top_k' \in 0..(VocabSize + 1)
    /\ top_p' \in 0..TopPDen
    /\ scale_idx' = 0
    /\ num_tokens_this_scale' = 0
    /\ tok_i' = 0
    /\ steps' = 0
    /\ step_logits' = Empty
    /\ pc' = "outer"
    /\ UNCHANGED <<model_vars, trainer_vars, conc_vars, filter_vars, forward_vars, sample_vars, vq_vars>>

\* a bug: num_tokens_this_scale = scale
EnterScaleMutNoSquare ==
    /\ pc = "outer"
    /\ scale_idx < Size(scales)
    /\ num_tokens_this_scale' = scales[scale_idx]
    /\ tok_i' = 0
    /\ pc' = "inner"
    /\ UNCHANGED <<model_vars, trainer_vars, conc_vars, arg_vars, generated, scale_idx, steps, step_logits,
                   filter_vars, forward_vars, sample_vars, vq_vars>>

\* for scale_idx, scale in enumerate(self.scales): num_tokens_this_scale = scale * scale
EnterScale ==
    /\ pc = "outer"
    /\ scale_idx < Size(scales)
    /\ num_tokens_this_scale' = scales[scale_idx] * scales[scale_idx]
    /\ tok_i' = 0
    /\ pc' = "inner"
    /\ UNCHANGED <<model_vars, trainer_vars, conc_vars, arg_vars, generated, scale_idx, steps, step_logits,
                   filter_vars, forward_vars, sample_vars, vq_vars>>

\* what one row of one step can give: the support of softmax(filtered_logits),
\* for every logit row the transformer may produce and every outcome of the
\* sort, tabulated by <<temperature, top_k, top_p>>
StepSupportTable ==
    UNION {{<<t, k, p, Support(f)>> :
               f \in UNION {FilterResults(Scale(lg, t), k, p) : lg \in LogitRows(VocabSize)}} :
           t \in {u \in Temperatures : ~DivByZero(u)}, k \in 0..VocabSize,
           p \in 0..TopPDen}

StepSupports ==
    {e[4] : e \in {x \in StepSupportTable :
                      x[1] = temperature /\ x[2] = top_k /\ x[3] = top_p}}

\* one pass of the inner loop, lines 301-336.  The logits of a row are those of
\* to_logits on the condition alone (seq_len = 0) or on the last position of the
\* transformer stack run over the prefix: any row of LogitRows(VocabSize).  They
\* are divided by the temperature and filtered, and torch.multinomial draws
\* one index of non-zero probability per row, which is appended; it raises on
\* a row of NaN probabilities.
SampleStep ==
    /\ pc = "inner"
    /\ tok_i < num_tokens_this_scale
    /\ step_logits' = [b \in 0..(batch_size - 1) |->
                         GenerateLogits(generated[b], Condition(class_labels, b),
                                        total_seq_len)]
    /\ IF TopKRaises(VocabSize, top_k) \/ DivByZero(temperature)
       THEN /\ pc' = "raised"
            /\ UNCHANGED <<generated, tok_i, steps>>
       ELSE \E support \in [0..(batch_size - 1) -> StepSupports] :
              IF \E b \in 0..(batch_size - 1) : support[b] = {}
              THEN \* every entry filtered: NaN probabilities
                   /\ pc' = "raised"
                   /\ UNCHANGED <<generated, tok_i, steps>>
              ELSE \E drawn \in [0..(batch_size - 1) -> 0..(VocabSize - 1)] :
                     /\ \A b \in 0..(batch_size - 1) : drawn[b] \in support[b]
                     /\ generated' = [b \in 0..(batch_size - 1) |->
                                        Cat(generated[b], drawn[b])]
                     /\ tok_i' = tok_i + 1
                     /\ steps' = steps + 1
                     /\ pc' = "inner"
    /\ UNCHANGED <<model_vars, trainer_vars, conc_vars, arg_vars, scale_idx, num_tokens_this_scale,
                   filter_vars, forward_vars, sample_vars, vq_vars>>

\* a bug: the outer loop skips every other scale
LeaveScaleMutSkip ==
    /\ pc = "inner"
    /\ tok_i = num_tokens_this_scale
    /\ scale_idx' = Min(scale_idx + 2, Size(scales))
    /\ pc' = "outer"
    /\ UNCHANGED <<model_vars, trainer_vars, conc_vars, arg_vars, generated, num_tokens_this_scale, tok_i,
                   steps, step_logits, filter_vars, forward_vars, sample_vars, vq_vars>>

\* the inner loop is exhausted: on to the next scale
LeaveScale ==
    /\ pc = "inner"
    /\ tok_i = num_tokens_this_scale
    /\ scale_idx' = scale_idx + 1
    /\ pc' = "outer"
    /\ UNCHANGED <<model_vars, trainer_vars, conc_vars, arg_vars, generated, num_tokens_this_scale, tok_i,
                   steps, step_logits, filter_vars, forward_vars, sample_vars, vq_vars>>

\* a bug: the outer loop stops before the last scale
ReturnMutEarly ==
    /\ pc = "outer"
    /\ scale_idx >= Size(scales) - 1
    /\ pc' = "done"
    /\ UNCHANGED <<model_vars, trainer_vars, conc_vars, arg_vars, loop_vars, filter_vars, forward_vars, sample_vars, vq_vars>>

\* return generated
Return ==
    /\ pc = "outer"
    /\ scale_idx = Size(scales)
    /\ pc' = "done"
    /\ UNCHANGED <<model_vars, trainer_vars, conc_vars, arg_vars, loop_vars, filter_vars, forward_vars, sample_vars, vq_vars>>

\* the returned sequence fed back: forward(generated, class_labels, return_loss=True)
\* (a sequence of at least one token)
ForwardGenerated ==
    /\ pc = "done"
    /\ Size(generated[0]) >= 1
    /\ fw_tokens' = generated
    /\ fw' = Forward(generated, class_labels, TRUE, total_seq_len)
    /\ pc' = "fed"
    /\ UNCHANGED <<model_vars, trainer_vars, conc_vars, arg_vars, loop_vars, filter_vars, sample_vars, vq_vars>>

\* ------------------------------------------- calls from outside generate
\* top_k_top_p_filtering(logits, top_k, top_p) on a [B, FilterWidth] batch
FilterCall ==
    /\ pc = "idle"
    /\ \E B \in 1..MaxBatch, k \in 0..(FilterWidth + 1), p \in 0..TopPDen :
         /\ B * FilterWidth <= MaxCells
         /\ \E lg \in [0..(B - 1) -> LogitRows(FilterWidth)] :
              /\ batch_size' = B
              /\ logits' = lg
              /\ top_k' = k
              /\ top_p' = p
              /\ IF TopKRaises(FilterWidth, k)
                 THEN /\ filtered_logits' = Empty
                      /\ pc' = "filter_raised"
                 ELSE LET results == [b \in 0..(B - 1) |-> FilterResults(lg[b], k, p)]
                      IN /\ filtered_logits' \in
                                {f \in [0..(B - 1) -> UNION {results[b] : b \in 0..(B - 1)}] :
                                    \A b \in 0..(B - 1) : f[b] \in results[b]}
                         /\ pc' = "filtered"
    /\ UNCHANGED <<model_vars, trainer_vars, conc_vars, class_labels, temperature, loop_vars, forward_vars,
                   sample_vars, vq_vars>>

\* lines 325-333 of generate on a [B, FilterWidth] batch of logits: divide by
\* the temperature, filter, softmax, draw one index per row
SampleLogits ==
    /\ pc = "idle"
    /\ \E B \in 1..MaxBatch, t \in Temperatures, k \in 0..(FilterWidth + 1),
          p \in 0..TopPDen :
         /\ B * FilterWidth <= MaxCells
         /\ \E lg \in [0..(B - 1) -> LogitRows(FilterWidth)] :
              /\ batch_size' = B
              /\ logits' = lg
              /\ temperature' = t
              /\ top_k' = k
              /\ top_p' = p
              /\ IF TopKRaises(FilterWidth, k) \/ DivByZero(t)
                 THEN /\ filtered_logits' = Empty
                      /\ probs' = Empty
                      /\ next_token' = Empty
                      /\ pc' = "sample_raised"
                 ELSE LET results ==
                              [b \in 0..(B - 1) |-> FilterResults(Scale(lg[b], t), k, p)]
                      IN /\ filtered_logits' \in
                                {f \in [0..(B - 1) -> UNION {results[b] : b \in 0..(B - 1)}] :
                                    \A b \in 0..(B - 1) : f[b] \in results[b]}
                         /\ probs' = [b \in 0..(B - 1) |->
                                        [i \in 0..(FilterWidth - 1) |->
                                            Weight(filtered_logits'[b][i])]]
                         /\ IF \E b \in 0..(B - 1) : Support(filtered_logits'[b]) = {}
                            THEN /\ next_token' = Empty
                                 /\ pc' = "sample_raised"
                            ELSE /\ next_token' \in
                                        {n \in [0..(B - 1) -> 0..(FilterWidth - 1)] :
                                            \A b \in 0..(B - 1) : probs'[b][n[b]] > 0}
                                 /\ pc' = "sampled"
    /\ UNCHANGED <<model_vars, trainer_vars, conc_vars, class_labels, loop_vars, forward_vars, vq_vars>>

\* VAR.forward(tokens, class_labels, return_loss) on a [B, L] batch
ForwardCall ==
    /\ pc = "idle"
    /\ \E B \in 1..MaxBatch, L \in 1..(total_seq_len + 1) :
         /\ B * L <= MaxCells
         /\ batch_size' = B
         /\ class_labels' \in ClassLabelArgs(B)
         /\ fw_tokens' \in [0..(B - 1) -> [0..(L - 1) -> 0..(VocabSize - 1)]]
    /\ \E return_loss \in BOOLEAN :
         fw' = Forward(fw_tokens', class_labels', return_loss, total_seq_len)
    /\ pc' = "forwarded"
    /\ UNCHANGED <<model_vars, trainer_vars, conc_vars, temperature, top_k, top_p, loop_vars, filter_vars,
                   sample_vars, vq_vars>>

\* ---------------------------------------------------------------- VQVAE
\* VQVAE(num_embeddings, embedding_dim): the tokenizer is built; its codebook
\* holds whatever weights initialisation and training have given it
VQVAEConstruct ==
    /\ pc = "idle"
    /\ embedding_dim = 0
    /\ \E dim \in 1..MaxDim :
         /\ NumEmbeddings * dim <= MaxCodeCells
         /\ embedding_dim' = dim
         /\ embeddings' \in Codebooks(dim)
    /\ UNCHANGED <<model_vars, trainer_vars, conc_vars, pc, arg_vars, loop_vars, filter_vars, forward_vars,
                   sample_vars, encode_vars, decode_vars>>

\* VQVAE.encode(x) on one H x W image: the encoder, then the quantizer
Encode ==
    /\ pc = "idle"
    /\ embedding_dim > 0
    /\ \E H \in ImageSizes, W \in ImageSizes :
         LET h == EncoderSize(H)
             w == EncoderSize(W)
         IN /\ image_size' = <<H, W>>
            /\ IF h < 0 \/ w < 0
               THEN /\ z' = Empty
                    /\ vq' = NoQuantizer
                    /\ pc' = "encode_raised"
               ELSE /\ h * w * embedding_dim <= MaxFeatCells
                    /\ z' \in Features(h * w, embedding_dim)
                    /\ vq' = QuantizerForward(embeddings, z', h, w)
                    /\ pc' = "encoded"
    /\ UNCHANGED <<model_vars, trainer_vars, conc_vars, arg_vars, loop_vars, filter_vars, forward_vars,
                   sample_vars, codebook_vars, decode_vars>>

\* VQVAE.decode(quantized) on the quantized grid encode returned
Decode ==
    /\ pc = "encoded"
    /\ x_recon' = Decoder(vq.quantized, vq.shape)
    /\ pc' = "decoded"
    /\ UNCHANGED <<model_vars, trainer_vars, conc_vars, arg_vars, loop_vars, filter_vars, forward_vars,
                   sample_vars, codebook_vars, encode_vars, x_recon_idx>>

\* VQVAE.decode_from_indices(encodings) on the indices encode returned
DecodeFromIndices ==
    /\ pc = "decoded"
    /\ LET quantized == [i \in DOMAIN vq.encodings |-> embeddings[vq.encodings[i]]]
       IN x_recon_idx' = Decoder(quantized, vq.shape)
    /\ pc' = "decoded_both"
    /\ UNCHANGED <<model_vars, trainer_vars, conc_vars, arg_vars, loop_vars, filter_vars, forward_vars,
                   sample_vars, codebook_vars, encode_vars, x_recon>>

VQNext ==
    \/ VQVAEConstruct
    \/ Encode
    \/ Decode
    \/ DecodeFromIndices

\* VARTrainer.generate_samples(num_samples, class_labels) of a trainer whose
\* var_model has max_scale S, for a generate call that returns: tokens of shape
\* [N, total_seq_len], the grid cut from them, and the images
\* decode_from_indices makes of the grid, [N, 3, 4 * grid_size, 4 * grid_size]
GenerateSamples ==
    /\ pc = "idle"
    /\ samples.status = "none"
    /\ \E S \in 1..MaxSampleScale, N \in 1..MaxBatch :
         \E labels \in ClassLabelArgs(N) :
            LET seq_len == TotalSeqLen(S)
                grid == TokenGrid(S, seq_len)
            IN samples' =
                 [status |-> "decoded", max_scale |-> S, num_samples |-> N,
                  class_labels |-> labels, seq_len |-> seq_len,
                  grid_size |-> grid.grid_size, tokens_2d |-> grid.tokens_2d,
                  images |-> <<N, DecoderSize(grid.grid_size),
                               DecoderSize(grid.grid_size)>>]
    /\ UNCHANGED <<model_vars, conc_vars, pc, arg_vars, loop_vars, filter_vars,
                   forward_vars, sample_vars, vq_vars>>

Next ==
    \/ GenerateCall
    \/ EnterScale
    \/ SampleStep
    \/ LeaveScale
    \/ Return
    \/ ForwardGenerated

Spec == Init /\ [][Next]_vars

\* the filter on its own, over every batch of rows within the bounds
FilterSpec == Init /\ [][FilterCall]_vars

\* the teacher-forced pass on its own, over every batch of sequences
ForwardSpec == Init /\ [][ForwardCall]_vars

\* one sampling step on its own, over every batch of logit rows
SampleSpec == Init /\ [][SampleLogits]_vars

\* the tokenizer on its own: built, then an image encoded and decoded both
\* ways.  It reads no field of VAR: the VAR model beside it is held at one scale
VQInit == Init /\ max_scale = 1

VQSpec == VQInit /\ [][VQNext]_vars

\* a generate call runs its loops to the end: nothing suspends it
\* torch.manual_seed(s) before any call is made
ManualSeed ==
    /\ \A c \in CallIds : calls[c].pc = "idle"
    /\ \E s \in 0..(RngStates - 1) : rng' = [seed |-> s, state |-> s]
    /\ UNCHANGED <<model_vars, trainer_vars, calls, pc, arg_vars, loop_vars,
                   filter_vars, forward_vars, sample_vars, vq_vars>>

\* call c enters generate: lines 283-293
CallGenerate(c) ==
    /\ calls[c].pc = "idle"
    /\ total_seq_len <= MaxCells
    /\ \E labels \in ClassLabelArgs(1), k \in 0..VocabSize :
         calls' = [calls EXCEPT ![c] =
                      [pc |-> "running", class_labels |-> labels, top_k |-> k,
                       generated |-> Empty]]
    /\ UNCHANGED <<model_vars, trainer_vars, rng, pc, arg_vars, loop_vars,
                   filter_vars, forward_vars, sample_vars, vq_vars>>

\* one pass of the inner loop of call c, lines 300-336: the logits of its
\* prefix, the filter, the softmax, and torch.multinomial, which reads the
\* default generator and moves it on
CallPass(c) ==
    /\ calls[c].pc = "running"
    /\ Size(calls[c].generated) < total_seq_len
    /\ LET drawn == Multinomial(PassProbs(calls[c].generated, calls[c]), rng.state)
       IN calls' = [calls EXCEPT ![c].generated = Cat(@, drawn)]
    /\ rng' = [rng EXCEPT !.state = NextRng(@)]
    /\ UNCHANGED <<model_vars, trainer_vars, pc, arg_vars, loop_vars,
                   filter_vars, forward_vars, sample_vars, vq_vars>>

\* call c returns its sequence: both loops are exhausted
CallReturn(c) ==
    /\ calls[c].pc = "running"
    /\ Size(calls[c].generated) = total_seq_len
    /\ calls' = [calls EXCEPT ![c].pc = "done"]
    /\ UNCHANGED <<model_vars, trainer_vars, rng, pc, arg_vars, loop_vars,
                   filter_vars, forward_vars, sample_vars, vq_vars>>

ConcNext ==
    \/ ManualSeed
    \/ \E c \in CallIds : CallGenerate(c)
    \/ \E c \in CallIds : CallPass(c)
    \/ \E c \in CallIds : CallReturn(c)

\* two generate calls on one model, their passes interleaved in any order
ConcSpec == Init /\ [][ConcNext]_vars

\* generate_samples alone
SamplesSpec == Init /\ [][GenerateSamples]_vars

FairSpec == Spec /\ WF_vars(EnterScale \/ SampleStep \/ LeaveScale \/ Return)

\* ================================================================ claims
\* a generate call is under way or over
InGenerate == pc \in {"outer", "inner", "done", "raised", "fed"}

\* the arguments generate accepts: a schedule of at least one scale, a top_k
\* torch.topk accepts, a positive temperature
GenAllowed == max_scale >= 1 /\ top_k <= VocabSize /\ temperature[1] > 0

\* sum of k * k for k = 1..S, in closed form
SumK2(S) == (S * (S + 1) * (2 * S + 1)) \div 6

\* C1: for max_scale >= 1 and allowed arguments generate does not raise, and
\* what it returns has shape (batch_size, total_seq_len) with every entry an
\* integer in [0, vocab_size)
C1_GenerateShapeAndRange ==
    (InGenerate /\ GenAllowed) =>
        /\ pc # "raised"
        /\ pc \in {"done", "fed"} =>
              /\ DOMAIN generated = 0..(batch_size - 1)
              /\ \A b \in DOMAIN generated :
                    /\ DOMAIN generated[b] = 0..(total_seq_len - 1)
                    /\ \A i \in DOMAIN generated[b] :
                          generated[b][i] \in 0..(VocabSize - 1)

\* C1 witness: a conditional call over two scales, both filters active, returned
C1_Witness ==
    /\ pc = "done"
    /\ max_scale = 2
    /\ class_labels # None
    /\ top_k = 1
    /\ top_p = 1
    /\ Size(generated[0]) = 5

\* row r is a prefix of row s
IsPrefix(r, s) ==
    /\ Size(r) <= Size(s)
    /\ \A i \in DOMAIN r : r[i] = s[i]

\* C2: the sequence starts empty, a sampling step appends exactly one token to
\* every row, and no step changes or removes a token already appended
C2_NoBacktracking ==
    [][ /\ pc = "idle" /\ pc' = "outer" =>
              \A b \in DOMAIN generated' : Size(generated'[b]) = 0
        /\ InGenerate =>
              /\ DOMAIN generated' = DOMAIN generated
              /\ \A b \in DOMAIN generated :
                    /\ IsPrefix(generated[b], generated'[b])
                    /\ Size(generated'[b]) =
                          Size(generated[b]) + (IF steps' = steps + 1 THEN 1 ELSE 0)
              /\ (pc = "inner" /\ pc' = "inner") => steps' = steps + 1 ]_vars

\* C2 witness: three tokens appended, the loop still running
C2_Witness ==
    /\ pc = "inner"
    /\ steps = 3
    /\ \A b \in DOMAIN generated : Size(generated[b]) = 3

\* where the loops of generate stand, against compute_scale_positions
C3_Positions ==
    LET pos == compute_scale_positions(max_scale)
        len == Size(generated[0])
    IN /\ \A b \in DOMAIN generated : Size(generated[b]) = len
       /\ steps = len
       /\ pc = "inner" => /\ len = pos.start[scale_idx] + tok_i
                          /\ tok_i <= num_tokens_this_scale
                          /\ tok_i = 0 => len = pos.start[scale_idx]
                          /\ tok_i = num_tokens_this_scale => len = pos.end[scale_idx]
       /\ (pc = "outer" /\ scale_idx > 0) => len = pos.end[scale_idx - 1]
       /\ (pc = "outer" /\ scale_idx = 0) => len = 0
       /\ pc \in {"done", "fed"} => len = total_seq_len /\ steps = total_seq_len

\* C3: for max_scale >= 1 the loop ends, after exactly total_seq_len sampling
\* steps, with a sequence of length total_seq_len; it enters scale k at length
\* start_k and leaves it at length end_k
C3_TerminatesOnSchedule ==
    /\ []((InGenerate /\ GenAllowed) => C3_Positions)
    /\ (pc = "outer" /\ GenAllowed) ~> (pc \in {"done", "fed"} /\ steps = total_seq_len)

\* C3 witness: the loop about to leave the second scale, at end_2 = 5
C3_Witness ==
    /\ pc = "inner"
    /\ max_scale = 2
    /\ scale_idx = 1
    /\ tok_i = num_tokens_this_scale
    /\ Size(generated[0]) = 5

\* C4: total_seq_len is the sum of k * k for k = 1..max_scale; 30 for 4, 204 for 8
C4_TotalSeqLen ==
    /\ max_scale >= 1 => total_seq_len = SumK2(max_scale)
    /\ TotalSeqLen(4) = 30
    /\ TotalSeqLen(8) = 204

\* C4 witness: a model constructed with two scales
C4_Witness == pc = "idle" /\ max_scale = 2 /\ total_seq_len = 5

\* the intervals of compute_scale_positions(S) tile [0, total)
Tiles(S, total) ==
    LET pos == compute_scale_positions(S)
    IN /\ DOMAIN pos.start = 0..(S - 1)
       /\ DOMAIN pos.end = 0..(S - 1)
       /\ pos.start[0] = 0
       /\ \A k \in 0..(S - 1) : pos.end[k] - pos.start[k] = (k + 1) * (k + 1)
       /\ \A k \in 0..(S - 2) : pos.start[k + 1] = pos.end[k]
       /\ pos.end[S - 1] = total
       /\ \A q \in 0..(total - 1) :
             Cardinality({k \in 0..(S - 1) : pos.start[k] <= q /\ q < pos.end[k]}) = 1

\* C5: for max_scale >= 1 the (start, end) lists of compute_scale_positions tile
\* [0, total_seq_len): every flat position lies in the interval of one scale
C5_ScheduleTiles == max_scale >= 1 => Tiles(max_scale, total_seq_len)

\* C5 witness: a two-scale schedule, intervals [0, 1) and [1, 5)
C5_Witness ==
    /\ max_scale = 2
    /\ compute_scale_positions(max_scale).start[1] = 1
    /\ compute_scale_positions(max_scale).end[1] = total_seq_len

\* the token inputs the logits at one position depend on, as positions
TokenDeps(lg) == {e[2] : e \in {x \in lg : x[1] = "tok"}}

\* C6: the mask handed to attention blocks exactly the pairs (i, j) with j > i,
\* position i attends to exactly 0..i, and the logits at position i do not
\* depend on the tokens at positions > i: two rows with the same condition that
\* agree on positions 0..i have the same logits at position i
C6_Causal ==
    (pc = "forwarded" /\ fw.status = "ok") =>
        LET L == Size(fw_tokens[0])
        IN /\ DOMAIN fw.attn_mask = 0..(L - 1)
           /\ \A i \in 0..(L - 1) :
                 /\ {j \in 0..(L - 1) : fw.attn_mask[i][j]} = {j \in 0..(L - 1) : j > i}
                 /\ Attended(fw.attn_mask, i) = 0..i
           /\ \A b \in 0..(batch_size - 1), i \in 0..(L - 1) :
                 TokenDeps(fw.logits[b][i]) = 0..i
           /\ \A a, b \in 0..(batch_size - 1), i \in 0..(L - 1) :
                 (/\ Condition(class_labels, a) = Condition(class_labels, b)
                  /\ \A j \in 0..i : fw_tokens[a][j] = fw_tokens[b][j])
                     => fw.logits[a][i] = fw.logits[b][i]

\* C6 witness: two rows that differ only in their last token: the logits
\* differ there and nowhere before
C6_Witness ==
    /\ pc = "forwarded"
    /\ fw.status = "ok"
    /\ batch_size = 2
    /\ class_labels = None
    /\ Size(fw_tokens[0]) = 2
    /\ fw_tokens[0][0] = fw_tokens[1][0]
    /\ fw_tokens[0][1] # fw_tokens[1][1]
    /\ fw.logits[0][0] = fw.logits[1][0]
    /\ fw.logits[0][1] # fw.logits[1][1]

\* C7: with return_loss the loss is taken over exactly the pairs (logits at
\* (b, i), token at (b, i + 1)) for i = 0..L-2 of every batch element b
C7_LossPairs ==
    (pc = "forwarded" /\ fw.status = "ok" /\ fw.loss # "none") =>
        LET L == Size(fw_tokens[0])
        IN /\ Size(fw.pairs) = batch_size * (L - 1)
           /\ {<<fw.pairs[n].logit, fw.pairs[n].target>> : n \in DOMAIN fw.pairs}
                 = {<<<<b, i>>, <<b, i + 1>>>> : b \in 0..(batch_size - 1), i \in 0..(L - 2)}
           /\ \A n \in DOMAIN fw.pairs :
                 fw.pairs[n].logit[2] # L - 1 /\ fw.pairs[n].target[2] # 0

\* C7 witness: a loss over a batch of two sequences of length two
C7_Witness ==
    /\ pc = "forwarded"
    /\ fw.loss = "finite"
    /\ batch_size = 2
    /\ Size(fw_tokens[0]) = 2
    /\ Size(fw.pairs) = 2

\* what generate returned is an input forward accepts
ValidForwardInput ==
    \A b \in DOMAIN generated :
        /\ Size(generated[b]) <= total_seq_len
        /\ \A i \in DOMAIN generated[b] : generated[b][i] \in 0..(VocabSize - 1)

\* C8 as stated: for every max_scale >= 1 the returned sequence is a valid
\* input of forward and the loss forward returns for it is finite
C8_Original ==
    (pc = "fed" /\ GenAllowed) =>
        /\ ValidForwardInput
        /\ fw.status = "ok"
        /\ fw.loss = "finite"
        /\ Size(fw.pairs) >= 1

\* C8 amended: the returned sequence is a valid input for every max_scale >= 1;
\* the loss is finite, over at least one pair, for max_scale >= 2; for
\* max_scale = 1 the sequence has one token, no pair, and the loss is NaN
C8_FiniteLossFromTwoScales ==
    (pc = "fed" /\ GenAllowed) =>
        /\ ValidForwardInput
        /\ fw.status = "ok"
        /\ max_scale >= 2 => fw.loss = "finite" /\ Size(fw.pairs) >= 1
        /\ max_scale = 1 => fw.loss = "nan" /\ Size(fw.pairs) = 0

\* C8 witness: a two-scale sequence fed back, the loss over its four pairs
C8_Witness ==
    /\ pc = "fed"
    /\ max_scale = 2
    /\ fw.loss = "finite"
    /\ Size(fw.pairs) = 4

\* C9: top-k followed by top-p leaves at least one entry of every row unfiltered
C9_NeverAllFiltered ==
    pc = "filtered" =>
        \A b \in DOMAIN filtered_logits : Support(filtered_logits[b]) # {}

\* C9 witness: both filters active, top_p = 0: one entry is left
C9_Witness ==
    /\ pc = "filtered"
    /\ top_k = 2
    /\ top_p = 0
    /\ Cardinality(Support(filtered_logits[0])) = 1

\* with top_p = 1.0 the result of the filter is the result of top-k alone
TopKAlone == pc = "filtered" /\ top_p = TopPDen

SortedRow(row) ==
    LET si == CHOOSE q \in SortedIndices(row) : TRUE
    IN [n \in DOMAIN row |-> row[si[n]]]

\* f keeps the first m entries of row in some descending order of it and sets
\* every later entry to the filter value
KeepsPrefix(row, f, m) ==
    \E si \in SortedIndices(row) :
        f = [i \in DOMAIN row |->
               IF (CHOOSE n \in DOMAIN row : si[n] = i) < m THEN row[i] ELSE filter_value]

\* length of the shortest prefix, of at least one entry, whose cumulative
\* probability reaches top_p = p / TopPDen (cumulative >= top_p)
ReachLen(row, p) ==
    LET sorted == SortedRow(row)
        total == CumWeight(sorted, Size(row) - 1)
    IN CHOOSE m \in 1..Size(row) :
          /\ CumWeight(sorted, m - 1) * TopPDen >= p * total
          /\ \A j \in 1..(m - 1) : CumWeight(sorted, j - 1) * TopPDen < p * total

\* length of the shortest prefix whose cumulative probability exceeds top_p
\* (cumulative > top_p)
ExceedLen(row, p) ==
    LET sorted == SortedRow(row)
        total == CumWeight(sorted, Size(row) - 1)
    IN CHOOSE m \in 1..Size(row) :
          /\ CumWeight(sorted, m - 1) * TopPDen > p * total
          /\ \A j \in 1..(m - 1) : CumWeight(sorted, j - 1) * TopPDen <= p * total

\* the nucleus filter has run: top_p < 1.0
NucleusRan == pc = "filtered" /\ top_p < TopPDen

ArgMax(row) == {i \in DOMAIN row : \A j \in DOMAIN row : row[j] <= row[i]}

\* the indices torch.multinomial can draw for row b
ProbSupport(b) == {i \in DOMAIN probs[b] : probs[b][i] > 0}

\* a step has sampled with top_k = 1 and a temperature above 0
SampledTopOne == pc = "sampled" /\ top_k = 1 /\ temperature[1] > 0

SampledUnfiltered == pc = "sampled" /\ top_k = 0 /\ top_p = TopPDen

\* C13: with top_k = 0 and top_p = 1.0 the filter returns every logit
\* unchanged, and the distribution sampled from is the softmax of the
\* temperature-scaled logits: every index can be drawn
C13_FilterOffIsIdentity ==
    SampledUnfiltered =>
        \A b \in DOMAIN logits :
            LET scaled == Scale(logits[b], temperature)
            IN /\ filtered_logits[b] = scaled
               /\ \A i \in DOMAIN scaled : filtered_logits[b][i] # filter_value
               /\ probs[b] = [i \in DOMAIN scaled |-> 2 ^ (scaled[i] + WeightShift)]
               /\ ProbSupport(b) = DOMAIN logits[b]

\* C13 witness: filters off at temperature 0.5 on logits 0, 1, 2: the scaled
\* logits 0, 2, 4 come back, and the lowest of them is drawn
C13_Witness ==
    /\ SampledUnfiltered
    /\ temperature = <<1, 2>>
    /\ logits[0][0] = 0
    /\ logits[0][1] = 1
    /\ logits[0][2] = 2
    /\ filtered_logits[0][2] = 4
    /\ probs[0][2] = 16 * probs[0][0]
    /\ next_token[0] = 0

\* the quantizer has run on the features z
Quantized == pc \in {"encoded", "decoded", "decoded_both"}

\* the squared Euclidean distance of two vectors, in exact arithmetic
SquaredDistance(u, v) ==
    LET acc[n \in -1..(Size(u) - 1)] ==
            IF n < 0 THEN 0 ELSE acc[n - 1] + (u[n] - v[n]) * (u[n] - v[n])
    IN acc[Size(u) - 1]

ExactDistances(i) ==
    \A j \in 0..(NumEmbeddings - 1) :
        Distance(z[i], embeddings[j]) = SquaredDistance(z[i], embeddings[j])

Lookup(i) == embeddings[vq.encodings[i]]

ExactStraightThrough(i) ==
    \A d \in DOMAIN z[i] : Fl(Lookup(i)[d] - z[i][d]) = Lookup(i)[d] - z[i][d]

C16_Original ==
    /\ Quantized =>
          /\ 4 * vq.shape[1] = image_size[1]
          /\ 4 * vq.shape[2] = image_size[2]
    /\ pc \in {"decoded", "decoded_both"} =>
          /\ x_recon.height = image_size[1]
          /\ x_recon.width = image_size[2]
    /\ pc = "decoded_both" =>
          /\ x_recon_idx.height = 4 * vq.shape[1]
          /\ x_recon_idx.width = 4 * vq.shape[2]
          /\ x_recon_idx.height = image_size[1]
          /\ x_recon_idx.width = image_size[2]

\* C16 amended: for an input of height H and width W, both at least 4, the
\* grid of encoding indices has shape (floor(H/4), floor(W/4)), one index per
\* cell, and decode and decode_from_indices turn an h x w grid into a 4h x 4w
\* image: the height and width of the input when H and W are multiples of 4,
\* less otherwise.  encode raises for a height or width below 4
C16_FourfoldOnMultiplesOfFour ==
    LET H == image_size[1]
        W == image_size[2]
    IN /\ pc = "encode_raised" => H < 4 \/ W < 4
       /\ Quantized =>
             /\ H >= 4 /\ W >= 4
             /\ vq.shape = <<H \div 4, W \div 4>>
             /\ DOMAIN vq.encodings = 0..((H \div 4) * (W \div 4) - 1)
             /\ DOMAIN vq.quantized = DOMAIN vq.encodings
       /\ pc \in {"decoded", "decoded_both"} =>
             /\ x_recon.height = 4 * vq.shape[1]
             /\ x_recon.width = 4 * vq.shape[2]
             /\ H % 4 = 0 => x_recon.height = H
             /\ W % 4 = 0 => x_recon.width = W
             /\ H % 4 # 0 => x_recon.height < H
             /\ W % 4 # 0 => x_recon.width < W
       /\ pc = "decoded_both" =>
             /\ x_recon_idx.height = 4 * vq.shape[1]
             /\ x_recon_idx.width = 4 * vq.shape[2]

\* C16 witness: an 8 x 4 image, a 2 x 1 grid, decoded to 8 x 4 both ways
C16_Witness ==
    /\ pc = "decoded_both"
    /\ image_size = <<8, 4>>
    /\ vq.shape = <<2, 1>>
    /\ x_recon.height = 8
    /\ x_recon.width = 4
    /\ x_recon_idx.height = 8
    /\ x_recon_idx.width = 4

\* the weights of the terms of vq_loss whose gradient reaches the tensor t
WeightsReaching(t) == {term.weight : term \in {u \in vq.vq_loss : t \in u.loss.grad_to}}

\* C17 as stated: the term of the loss whose gradient reaches the encoder
\* input has weight 1, the term whose gradient reaches the codebook has weight
\* commitment_cost
C17_Original ==
    Quantized =>
        /\ WeightsReaching("input") = {<<1, 1>>}
        /\ WeightsReaching("quantized") = {commitment_cost}

\* C17 amended: the loss has two terms, each with a gradient to one side only:
\* mse(quantized, stopgrad(input)), whose gradient reaches the codebook, has
\* weight 1, and mse(stopgrad(quantized), input), whose gradient reaches the
\* encoder input, has weight commitment_cost = 0.25
C17_CommitmentOnEncoderTerm ==
    Quantized =>
        /\ Cardinality(vq.vq_loss) = 2
        /\ \A term \in vq.vq_loss : Cardinality(term.loss.grad_to) = 1
        /\ WeightsReaching("quantized") = {<<1, 1>>}
        /\ WeightsReaching("input") = {commitment_cost}
        /\ 4 * commitment_cost[1] = commitment_cost[2]

\* C17 witness: a feature vector quantized to a codebook vector away from it,
\* so that both terms of the loss are above zero
C17_Witness ==
    /\ pc = "encoded"
    /\ embedding_dim = 1
    /\ z[0][0] = 3
    /\ Lookup(0)[0] = 1
    /\ WeightsReaching("input") = {<<1, 4>>}

\* C18: a model with max_scale < 1 (the empty schedule) is rejected when it is
\* built or when generate is called: generate never runs its loop to the end
\* and returns a sequence for it, whatever the (otherwise valid) arguments
C18_EmptyScheduleRejected ==
    (max_scale < 1 /\ temperature[1] > 0 /\ top_k <= VocabSize) =>
        pc \notin {"done", "fed"}

\* C19: generate with temperature <= 0 fails at once: for a model of at least
\* one scale no token is sampled and no sequence is returned
C19_NonPositiveTemperatureRejected ==
    (InGenerate /\ max_scale >= 1 /\ temperature[1] <= 0) =>
        /\ steps = 0
        /\ \A b \in DOMAIN generated : Size(generated[b]) = 0
        /\ pc \notin {"done", "fed"}

\* C20: for max_scale >= 1, forward on a token sequence longer than
\* total_seq_len fails with an error and returns no logits
C20_TooLongSequenceRejected ==
    (pc = "forwarded" /\ max_scale >= 1 /\ Size(fw_tokens[0]) > total_seq_len) =>
        /\ fw.status = "error"
        /\ fw.logits = Empty

\* ---------------------------------------------------------------- C23
\* the prefix of row b that the latest pass of the inner loop ran on: the
\* whole row when the pass raised, the row without the token it appended
\* otherwise
PassPrefix(b) ==
    IF pc = "raised" THEN generated[b]
    ELSE Slice(generated[b], 0, Size(generated[b]) - 1)

\* C23: in eval mode (no dropout), the logits a pass of generate's inner loop
\* samples from, for a non-empty prefix of length n, are the logits forward
\* computes at position n - 1 for that prefix and the same class labels; the
\* logits come from the conditioning vector alone exactly when the prefix is
\* empty, i.e. for the token at position 0.
C23_IncrementalEqualsTeacherForced ==
    step_logits # Empty =>
        \A b \in 0..(batch_size - 1) :
            LET prefix == PassPrefix(b)
                n == Size(prefix)
                condition == Condition(class_labels, b)
            IN /\ n >= 1 =>
                    step_logits[b] =
                        ForwardLogits(prefix, condition, total_seq_len, FALSE)[n - 1]
               /\ (step_logits[b] = <<"to_logits", condition>>) <=> (n = 0)

\* a pass inside the second scale: the prefix holds the token of the first
\* scale and one of the second, and the pass appended position 2
C23_Witness ==
    /\ pc = "inner"
    /\ scale_idx = 1
    /\ class_labels # None
    /\ Size(generated[0]) = 3
    /\ step_logits[0] =
          ForwardLogits(Slice(generated[0], 0, 2), Condition(class_labels, 0),
                        total_seq_len, FALSE)[1]
    /\ step_logits[0] #
          ForwardLogits(Slice(generated[0], 0, 2), Condition(class_labels, 0),
                        total_seq_len, TRUE)[1]

\* ---------------------------------------------------------------- C24
\* C24: for every max_scale >= 1, the grid generate_samples hands to
\* decode_from_indices is the last max_scale * max_scale tokens of each row,
\* reshaped to max_scale x max_scale, also when total_seq_len is itself a
\* perfect square.
C24_DecodesFinalScale ==
    samples.status = "decoded" =>
        /\ samples.grid_size = samples.max_scale
        /\ samples.tokens_2d =
              Reshape(samples.seq_len - samples.max_scale * samples.max_scale,
                      samples.max_scale)

\* ---------------------------------------------------------------- C21
\* what a call returns when it runs from generator state g with no other
\* call drawing in between
RECURSIVE SoloGenerate(_, _, _, _)
SoloGenerate(row, g, call, total) ==
    IF Size(row) >= total THEN row
    ELSE SoloGenerate(Cat(row, Multinomial(PassProbs(row, call), g)),
                      NextRng(g), call, total)

\* C21: two generate calls whose passes interleave share no mutable state:
\* for given arguments and seed, the sequence a call returns is the same under
\* every interleaving, so it is the sequence of the interleaving in which the
\* call makes all its draws before the other call makes any.
C21_SameUnderEveryInterleaving ==
    \A c \in CallIds :
        calls[c].pc = "done" =>
            calls[c].generated = SoloGenerate(Empty, rng.seed, calls[c], total_seq_len)

\* ---------------------------------------------------------------- C22
\* every step after construction leaves the scale list, total_seq_len and the
\* codebook as they were
InferenceKeepsParameters ==
    [][~VQVAEConstruct => UNCHANGED <<model_vars, codebook_vars>>]_vars

\* C22: inference leaves every parameter unchanged (codebook, scale list,
\* total_seq_len), and the only state a generate call writes is its own
\* prefix buffer: a pass of one call changes neither the other call's locals
\* nor any state outside the calls.
C22_InferenceWritesOnlyItsBuffer ==
    [][/\ UNCHANGED <<model_vars, codebook_vars>>
       /\ \A c \in CallIds :
             calls'[c].generated # calls[c].generated =>
                /\ \A d \in CallIds \ {c} : calls'[d] = calls[d]
                /\ rng' = rng]_vars

\* ---------------------------------------------------------------- C25
\* C25: torch.topk raises when top_k exceeds the number of logit entries, so a
\* generate call with top_k > vocab_size never completes: it does not return,
\* and having raised it hands back no sequence, partial or whole (stated for
\* the temperatures generate accepts).
C25_TooLargeTopKNeverCompletes ==
    (InGenerate /\ top_k > VocabSize /\ temperature[1] > 0) =>
        pc \notin {"done", "fed"}


====
